---- MODULE Spec2Model ----
(***************************************************************************)
(* A model of memegen's image domain (src/memegen/domain/image.py):        *)
(*   - Image.path / Image.hash, the variant key of a rendered image;       *)
(*   - _generate, the compositor: load, resize, lay out, pad, watermark;   *)
(*   - _optimize_font_size / _maximize_font_size, the font-size search;    *)
(*   - _add_blurred_background, the padding to the requested box;          *)
(*   - _split, the two-line text splitter.                                 *)
(*                                                                         *)
(* Python strings are sequences of one-character strings. An optional      *)
(* value is None (the empty tuple) or a one-element tuple holding it.      *)
(* Pillow is outside the repository: an image is its (size, mode, format), *)
(* a font is the width it measures for a text at a size.                   *)
(***************************************************************************)
EXTENDS Integers, Sequences, FiniteSets, TLC

VARIABLES
    pc,                \* which specification's machine runs and where it is
    request,           \* _generate: the arguments of the call
    background_image,  \* _generate: the opened (and converted) background
    image,             \* _generate: the image being drawn on / returned
    layout,            \* _generate: the two _optimize_font_size results
    pixel_work,        \* _generate: whether any image has been resized yet
    error,             \* _generate: the exception that ended the call, or None
    text,              \* _split: its argument
    result,            \* _split: its return value
    images,            \* Image.path: the two Image objects compared
    paths,             \* Image.path: their paths
    font_args,         \* _optimize_font_size: its arguments and two widths
    font_sizes         \* _optimize_font_size: its results at the two widths

vars == <<pc, request, background_image, image, layout, pixel_work, error,
          text, result, images, paths, font_args, font_sizes>>

----------------------------------------------------------------------------
(* Python values *)

None == <<>>

Some(v) == <<v>>

\* bool(v) of an optional int: None and 0 are falsy.
TruthyInt(v) == v # None /\ v[1] # 0

\* bool(v) of an optional str: None and "" are falsy.
TruthyStr(v) == v # None /\ Len(v[1]) > 0

\* int(a / b) for b > 0: Python's int() truncates toward zero.
IntDiv(a, b) == IF a >= 0 THEN a \div b ELSE -((-a) \div b)

Min(a, b) == IF a <= b THEN a ELSE b

Abs(a) == IF a >= 0 THEN a ELSE -a

\* All sequences over S of length 0..n.
SeqsUpTo(S, n) == UNION {[1..k -> S] : k \in 0..n}

----------------------------------------------------------------------------
(* _split *)

\* len(text) >= 3 and ' ' in text[1:-1]
CanSplit(t) ==
    /\ Len(t) >= 3
    /\ \E k \in 2..(Len(t) - 1) : t[k] = " "

\* space_indices: the 0-based indices of every space, first and last included,
\* in increasing order.
SpaceIndices(t) ==
    SelectSeq([k \in 1..Len(t) |-> k - 1], LAMBDA i : t[i + 1] = " ")

\* A slip of the definition below: the distance from (len(text) - 1) // 2.
SpaceProximitiesLowMid(t) ==
    LET si == SpaceIndices(t)
    IN  [k \in 1..Len(si) |-> Abs(si[k] - ((Len(t) - 1) \div 2))]

\* space_proximities: each space's distance from len(text) // 2.
SpaceProximities(t) ==
    LET si == SpaceIndices(t)
    IN  [k \in 1..Len(si) |-> Abs(si[k] - (Len(t) \div 2))]

\* min(space_proximities)
MinOf(seq) ==
    CHOOSE m \in {seq[k] : k \in 1..Len(seq)} :
        \A k \in 1..Len(seq) : m <= seq[k]

\* A slip of the loop below: the last closest space instead of the first.
SplitIndexLast(proximities, indices) ==
    LET k == CHOOSE k \in 1..Len(indices) :
                 /\ proximities[k] = MinOf(proximities)
                 /\ \A k2 \in (k + 1)..Len(indices) :
                        proximities[k2] # MinOf(proximities)
    IN  indices[k]

\* The for loop with its break: the index j of the first pair (i, j) of
\* zip(space_proximities, space_indices) with i == min(space_proximities).
SplitIndex(proximities, indices) ==
    LET k == CHOOSE k \in 1..Len(indices) :
                 /\ proximities[k] = MinOf(proximities)
                 /\ \A k2 \in 1..(k - 1) :
                        proximities[k2] # MinOf(proximities)
    IN  indices[k]

\* _split(text): a tuple of one or two strings.
Split(t) ==
    IF CanSplit(t)
    THEN LET j == SplitIndex(SpaceProximities(t), SpaceIndices(t))
         IN  <<SubSeq(t, 1, j), SubSeq(t, j + 2, Len(t))>>
    ELSE <<t>>

----------------------------------------------------------------------------
(* Fonts: ImageFont.truetype(font, size).getsize(text)[0] *)

\* The font files: one whose glyphs advance by the pixel size, one whose glyphs
\* advance by half of it, rounded up.
Fonts == {"wide", "narrow"}

\* The pixel size FreeType sets for a font size: 0 gives 1. A negative size is
\* only ever asked for by _maximize_font_size with max_size < 0, where every
\* measured width (>= 0) exceeds max_size whatever the pixel size is.
PixelSize(size) == IF size < 1 THEN 1 ELSE size

\* The width the font measures for a text at a size.
FontWidth(font, t, size) ==
    Len(t) * (IF font = "wide" THEN PixelSize(size)
              ELSE (PixelSize(size) + 1) \div 2)

\* ImageFont.truetype(font, size) with size < 1 depends on the Pillow build:
\* it raises, or (lenient) FreeType clamps the size. Sizes >= 1 always load.
TrueTypeLoads(size, lenient) == size >= 1 \/ lenient

----------------------------------------------------------------------------
(* _maximize_font_size *)

\* The while condition at font_size: the text is too wide and can shrink.
Shrinks(font, t, max_size, font_size) ==
    FontWidth(font, t, font_size) > max_size /\ font_size > 1

RECURSIVE MaximizeLoopByTwo(_, _, _, _)
\* A slip of the loop below: font_size = font_size - 2.
MaximizeLoopByTwo(font, t, max_size, font_size) ==
    IF Shrinks(font, t, max_size, font_size)
    THEN MaximizeLoopByTwo(font, t, max_size, font_size - 2)
    ELSE font_size

\* The while loop, entered at font_size: it counts down and leaves with the
\* first size at which its condition fails (1 at the latest).
MaximizeLoop(font, t, max_size, font_size) ==
    IF ~Shrinks(font, t, max_size, font_size) THEN font_size
    ELSE CHOOSE s \in 1..font_size :
             /\ ~Shrinks(font, t, max_size, s)
             /\ \A s2 \in (s + 1)..font_size : Shrinks(font, t, max_size, s2)

\* _maximize_font_size(font, text, max_size): None when truetype raises,
\* else Some(font_size). Only the first truetype call can get a size < 1.
MaximizeFontSize(font, t, max_size, lenient) ==
    IF TrueTypeLoads(max_size, lenient)
    THEN Some(MaximizeLoop(font, t, max_size, max_size))
    ELSE None

----------------------------------------------------------------------------
(* _optimize_font_size *)

\* '\n'.join(phrases) for one or two phrases.
JoinLines(phrases) ==
    IF Len(phrases) = 1 THEN phrases[1]
    ELSE phrases[1] \o <<"\n">> \o phrases[2]

\* phrases: split when the text is too wide at the smallest single line size.
Phrases(font, t, min_font_size, max_text_len) ==
    IF FontWidth(font, t, min_font_size) > max_text_len THEN Split(t) ELSE <<t>>

RECURSIVE FontSizeLoop(_, _, _, _, _, _)
\* The for loop over phrases[k..]: font_size = min(maximize(phrase), font_size).
\* None when a truetype call raises.
FontSizeLoop(font, phrases, k, font_size, max_text_len, lenient) ==
    IF k > Len(phrases) THEN Some(font_size)
    ELSE LET m == MaximizeFontSize(font, phrases[k], max_text_len, lenient)
         IN  IF m = None THEN None
             ELSE FontSizeLoop(font, phrases, k + 1, Min(m[1], font_size),
                               max_text_len, lenient)

\* _optimize_font_size(font, text, max_font_size, min_font_size, max_text_len):
\* None when a truetype call raises, else Some of (font_size, text).
OptimizeFontSize(font, t, max_font_size, min_font_size, max_text_len, lenient) ==
    IF ~TrueTypeLoads(min_font_size, lenient) THEN None
    ELSE LET phrases == Phrases(font, t, min_font_size, max_text_len)
             size == FontSizeLoop(font, phrases, 1,
                                  max_font_size \div Len(phrases),
                                  max_text_len, lenient)
         IN  IF size = None THEN None
             ELSE Some([font_size |-> size[1], text |-> JoinLines(phrases),
                        lines |-> Len(phrases)])

----------------------------------------------------------------------------
(* _add_blurred_background *)

\* border_dimensions: the foreground plus a one pixel border, cut to the box.
BorderDimensions(base, width, height) ==
    <<Min(width, base[1] + 2), Min(height, base[2] + 2)>>

\* The top-left corner at which an inner size is centred in an outer size.
CentredOffset(outer, inner) ==
    <<(outer[1] - inner[1]) \div 2, (outer[2] - inner[2]) \div 2>>

\* A slip of the function below: the bordered foreground is returned, not the
\* blurred background it was to be pasted on.
AddBorderOnly(foreground, background, width, height) ==
    LET border == BorderDimensions(foreground.size, width, height)
    IN  [size |-> border, mode |-> "RGB", format |-> "PNG",
         pasted |-> Some(<<foreground.size,
                           CentredOffset(border, foreground.size)>>)]

\* _add_blurred_background(foreground, background, width, height): the
\* background resized to (width, height), darkened and blurred, format 'PNG',
\* with the bordered foreground pasted at its centre.
AddBlurredBackground(foreground, background, width, height) ==
    LET border == BorderDimensions(foreground.size, width, height)
        blurred == <<width, height>>
    IN  [size |-> blurred, mode |-> background.mode, format |-> "PNG",
         pasted |-> Some(<<border, CentredOffset(blurred, border)>>)]

----------------------------------------------------------------------------
(* _generate *)

\* The (mode, format) of the background files a template can hold.
BackgroundFiles ==
    {<<"RGB", "JPEG">>, <<"RGBA", "PNG">>, <<"L", "JPEG">>, <<"P", "GIF">>}

\* The sides of the background files.
BgSides == {1, 2, 6}

MaxTargetK == 6

\* The width and the height a request may carry: None, an invalid one, or a
\* multiple of 4.
TargetSizes == {None, Some(-1), Some(0)} \cup {Some(4 * k) : k \in 1..MaxTargetK}

\* The captions: empty, two words, one word.
Captions == {<<>>, <<"a", " ", "a">>, <<"a", "a", "a", "a">>}

\* watermark: "" by default.
Watermarks == {<<>>, <<"w">>}

\* ImageFile.open(background) and the conversion of modes other than RGB/RGBA.
OpenBackground(size, mode, format) ==
    IF mode \notin {"RGB", "RGBA"}
    THEN IF format = "JPEG"
         THEN [size |-> size, mode |-> "RGB", format |-> "JPEG"]
         ELSE [size |-> size, mode |-> "RGBA", format |-> "PNG"]
    ELSE [size |-> size, mode |-> mode, format |-> format]

\* dimensions: ratio = size[0] / size[1] is the exact bw / bh here; over
\* BgSides and TargetSizes Python's float arithmetic gives the same integers.
Dimensions(size, width, height) ==
    LET bw == size[1]
        bh == size[2]
    IN  IF TruthyInt(width) /\ TruthyInt(height)
        THEN IF width[1] * bh < height[1] * bw
             THEN <<width[1], IntDiv(width[1] * bh, bw)>>
             ELSE <<IntDiv(height[1] * bw, bh), height[1]>>
        ELSE IF TruthyInt(width)
        THEN <<width[1], IntDiv(width[1] * bh, bw)>>
        ELSE IF TruthyInt(height)
        THEN <<IntDiv(height[1] * bw, bh), height[1]>>
        ELSE <<600, IntDiv(600 * bh, bw)>>

\* Image.resize(dimensions): a negative side raises; an empty image (a side of
\* 0) raises or not with the Pillow build (lenient).
ResizeWorks(dimensions, lenient) ==
    \/ dimensions[1] >= 1 /\ dimensions[2] >= 1
    \/ lenient /\ dimensions[1] >= 0 /\ dimensions[2] >= 0

Idle == <<"idle">>

\* The variables of the other machines, which _generate leaves alone.
OthersThanGenerate == <<text, result, images, paths, font_args, font_sizes>>

\* The call: log, open the background, convert its mode.
Open ==
    /\ pc = "start"
    /\ \E size \in BgSides \X BgSides, file \in BackgroundFiles,
          width \in TargetSizes, height \in TargetSizes,
          top \in Captions, bottom \in Captions, font_path \in Fonts,
          watermark \in Watermarks :
          /\ request' = [background |-> [size |-> size, mode |-> file[1],
                                         format |-> file[2]],
                         width |-> width, height |-> height,
                         top |-> top, bottom |-> bottom,
                         font_path |-> font_path,
                         watermark |-> watermark]
          /\ background_image' = OpenBackground(size, file[1], file[2])
    /\ pc' = "opened"
    /\ UNCHANGED <<image, layout, pixel_work, error>>
    /\ UNCHANGED OthersThanGenerate

\* "Resize to a maximum height and width": dimensions, resize, format 'PNG'.
Resize ==
    /\ pc = "opened"
    /\ LET dimensions == Dimensions(background_image.size,
                                    request.width, request.height)
       IN  \E lenient \in BOOLEAN :
              IF ResizeWorks(dimensions, lenient)
              THEN /\ image' = [size |-> dimensions,
                                mode |-> background_image.mode,
                                format |-> "PNG", pasted |-> None]
                   /\ pixel_work' = TRUE
                   /\ pc' = "resized"
                   /\ UNCHANGED error
              ELSE /\ error' = Some("ValueError")
                   /\ pc' = "raised"
                   /\ UNCHANGED <<image, pixel_work>>
    /\ UNCHANGED <<request, background_image, layout>>
    /\ UNCHANGED OthersThanGenerate

\* One caption's layout: the arguments _generate passes to
\* _optimize_font_size and what it returns.
CaptionLayout(font, t, size, lenient) ==
    LET max_font_size == size[2] \div 5
        min_font_size_single_line == size[2] \div 12
        max_text_len == size[1] - 20
        optimized == OptimizeFontSize(font, t, max_font_size,
                         min_font_size_single_line, max_text_len, lenient)
    IN  [font |-> font, caption |-> t,
         max_font_size |-> max_font_size,
         min_font_size |-> min_font_size_single_line,
         max_text_len |-> max_text_len,
         optimized |-> optimized]

\* A layout whose fonts can be loaded at the sizes found (truetype at
\* top_font_size and bottom_font_size).
LayoutLoads(l, lenient) ==
    /\ l.optimized # None
    /\ TrueTypeLoads(l.optimized[1].font_size, lenient)

\* "Draw image": both captions are laid out, measured and drawn.
Layout ==
    /\ pc = "resized"
    /\ \E lenient \in BOOLEAN :
          LET top == CaptionLayout(request.font_path, request.top,
                                   image.size, lenient)
              bottom == CaptionLayout(request.font_path, request.bottom,
                                      image.size, lenient)
          IN  IF LayoutLoads(top, lenient) /\ LayoutLoads(bottom, lenient)
              THEN /\ layout' = [top |-> top, bottom |-> bottom]
                   /\ pc' = "drawn"
                   /\ UNCHANGED error
              ELSE /\ error' = Some("OSError")
                   /\ pc' = "raised"
                   /\ UNCHANGED layout
    /\ UNCHANGED <<request, background_image, image, pixel_work>>
    /\ UNCHANGED OthersThanGenerate

\* "Pad image if a specific dimension is requested".
Pad ==
    /\ pc = "drawn"
    /\ image' = IF TruthyInt(request.width) /\ TruthyInt(request.height)
                THEN AddBlurredBackground(image, background_image,
                                          request.width[1], request.height[1])
                ELSE image
    /\ pc' = "padded"
    /\ UNCHANGED <<request, background_image, layout, pixel_work, error>>
    /\ UNCHANGED OthersThanGenerate

\* "Add watermark" (drawn on the image, at size 15) and return the image.
Return ==
    /\ pc = "padded"
    /\ pc' = "returned"
    /\ UNCHANGED <<request, background_image, image, layout, pixel_work, error>>
    /\ UNCHANGED OthersThanGenerate

Init ==
    /\ pc = "start"
    /\ request = Idle
    /\ background_image = Idle
    /\ image = Idle
    /\ layout = Idle
    /\ pixel_work = FALSE
    /\ error = None
    /\ text = Idle
    /\ result = Idle
    /\ images = Idle
    /\ paths = Idle
    /\ font_args = Idle
    /\ font_sizes = Idle

Next == Open \/ Resize \/ Layout \/ Pad \/ Return

Spec == Init /\ [][Next]_vars

----------------------------------------------------------------------------
(* The machine of _split: one call on one text *)

MaxTextLen == 7

DoctestHello == <<"H", "e", "l", "l", "o", ",", " ", "w", "o", "r", "l", "d", "!">>

DoctestPhrase ==
    <<"T", "h", "i", "s", " ", "i", "s", " ", "a", " ", "p", "h", "r", "a", "s", "e", " ">> \o
    <<"t", "h", "a", "t", " ", "c", "a", "n", " ", "b", "e", " ", "s", "p", "l", "i", "t", ".">>

DoctestUnsplit ==
    <<"T", "h", "i", "s", "_", "i", "s", "_", "a", "_", "p", "h", "r", "a", "s", "e", "_">> \o
    <<"t", "h", "a", "t", "_", "c", "a", "n", "_", "n", "o", "t", "_", "b", "e", "_", "s", "p", "l", "i", "t", ".">>

\* The texts _split is called on: every text of letters and spaces up to
\* MaxTextLen, and the three of its doctests.
SplitTexts ==
    SeqsUpTo({"a", " "}, MaxTextLen)
        \cup {DoctestHello, DoctestPhrase, DoctestUnsplit}

OthersThanSplit ==
    <<request, background_image, image, layout, pixel_work, error,
      images, paths, font_args, font_sizes>>

SplitInit ==
    /\ pc = "split_called"
    /\ text \in SplitTexts
    /\ result = Idle
    /\ request = Idle
    /\ background_image = Idle
    /\ image = Idle
    /\ layout = Idle
    /\ pixel_work = FALSE
    /\ error = None
    /\ images = Idle
    /\ paths = Idle
    /\ font_args = Idle
    /\ font_sizes = Idle

\* result = _split(text)
SplitCall ==
    /\ pc = "split_called"
    /\ result' = Split(text)
    /\ pc' = "split_returned"
    /\ UNCHANGED text
    /\ UNCHANGED OthersThanSplit

SplitNext == SplitCall

SpecSplit == SplitInit /\ [][SplitNext]_vars

----------------------------------------------------------------------------
(* Image.hash and Image.path *)

\* str(n) of a Python int.
DigitChar(d) == <<"0", "1", "2", "3", "4", "5", "6", "7", "8", "9">>[d + 1]

RECURSIVE IntStr(_)
IntStr(n) ==
    IF n < 0 THEN <<"-">> \o IntStr(-n)
    ELSE IF n < 10 THEN <<DigitChar(n)>>
    ELSE IntStr(n \div 10) \o <<DigitChar(n % 10)>>

\* custom = [style, font, watermark, width, height]: three optional strings
\* and two optional ints.
Custom(img) == <<img.style, img.font, img.watermark, img.width, img.height>>

\* A slip of the definition below: the requested size is left out.
AnyOfStrings(custom) ==
    TruthyStr(custom[1]) \/ TruthyStr(custom[2]) \/ TruthyStr(custom[3])

\* any(custom)
AnyTruthy(custom) ==
    \/ TruthyStr(custom[1])
    \/ TruthyStr(custom[2])
    \/ TruthyStr(custom[3])
    \/ TruthyInt(custom[4])
    \/ TruthyInt(custom[5])

\* "{}:{}".format(index, value or ""), index counted from 0 as enumerate does.
FormatField(index, value) ==
    IntStr(index) \o <<":">> \o
        (IF index <= 2
         THEN (IF TruthyStr(value) THEN value[1] ELSE <<>>)
         ELSE (IF TruthyInt(value) THEN IntStr(value[1]) ELSE <<>>))

RECURSIVE Updates(_, _)
\* The bytes the loop of Image.hash feeds to the digest from values[k..].
Updates(values, k) ==
    IF k > Len(values) THEN <<>>
    ELSE FormatField(k - 1, values[k]) \o Updates(values, k + 1)

\* hashlib.md5(...).hexdigest(): taken as injective on the bytes it is fed.
HexDigest(bytes) == <<"md5[">> \o bytes \o <<"]">>

\* Image.hash(values)
Hash(values) == HexDigest(Updates(values, 1))

\* os.path.join(root, template.key, text.path) of relative, non-empty parts.
Base(img) == img.root[1] \o <<"/">> \o img.key \o <<"/">> \o img.text_path

ImgSuffix == <<".", "i", "m", "g">>

\* Image.path: None without a root, else Some(path).
Path(img) ==
    IF ~TruthyStr(img.root) THEN None
    ELSE IF AnyTruthy(Custom(img))
    THEN Some(Base(img) \o <<"#">> \o Hash(Custom(img)) \o ImgSuffix)
    ELSE Some(Base(img) \o ImgSuffix)

----------------------------------------------------------------------------
(* The machine of Image.path: two Image objects of one template and text *)

MaxSizeField == 1

\* style, font: None, empty, a name, or a string of a digit and a colon.
StringFields == {None, Some(<<>>), Some(<<"a">>), Some(<<"1", ":">>)}

\* watermark: "" by default.
WatermarkFields == {Some(<<>>), Some(<<"1", ":">>)}

\* width, height: None or 0..MaxSizeField.
SizeFields == {None} \cup {Some(n) : n \in 0..MaxSizeField}

Roots == {None, Some(<<"r">>)}

\* Image(template, text, root, style, font, size, watermark)
NewImage(root, style, font, watermark, width, height) ==
    [root |-> root, key |-> <<"t">>, text_path |-> <<"x">>,
     style |-> style, font |-> font, watermark |-> watermark,
     width |-> width, height |-> height]

Styles(root) ==
    {NewImage(root, style, font, watermark, width, height) :
        style \in StringFields, font \in StringFields,
        watermark \in WatermarkFields,
        width \in SizeFields, height \in SizeFields}

OthersThanPath ==
    <<request, background_image, image, layout, pixel_work, error,
      text, result, font_args, font_sizes>>

PathInit ==
    /\ pc = "path_wanted"
    /\ \E root \in Roots : images \in Styles(root) \X Styles(root)
    /\ paths = Idle
    /\ request = Idle
    /\ background_image = Idle
    /\ image = Idle
    /\ layout = Idle
    /\ pixel_work = FALSE
    /\ error = None
    /\ text = Idle
    /\ result = Idle
    /\ font_args = Idle
    /\ font_sizes = Idle

\* Both objects' path property is read.
PathRead ==
    /\ pc = "path_wanted"
    /\ paths' = <<Path(images[1]), Path(images[2])>>
    /\ pc' = "path_read"
    /\ UNCHANGED images
    /\ UNCHANGED OthersThanPath

PathNext == PathRead

SpecPath == PathInit /\ [][PathNext]_vars

----------------------------------------------------------------------------
(* The machine of _optimize_font_size: one text laid out at two widths *)

MaxFontSize == 8

MaxTextWidth == 12

\* The texts laid out: empty, one word, two words.
FontTexts ==
    {<<>>, <<"a", "a">>, <<"a", " ", "a">>, <<"a", "a", " ", "a">>,
     <<"a", "a", " ", "a", "a", "a">>}

OthersThanFont ==
    <<request, background_image, image, layout, pixel_work, error,
      text, result, images, paths>>

FontInit ==
    /\ pc = "font_wanted"
    /\ \E font \in Fonts, t \in FontTexts, max_font_size \in 0..MaxFontSize,
          min_font_size \in 0..MaxFontSize,
          narrow \in -1..MaxTextWidth, wide \in -1..MaxTextWidth,
          lenient \in BOOLEAN :
          /\ narrow <= wide
          /\ font_args = [font |-> font, text |-> t, max_font_size |-> max_font_size,
                          min_font_size |-> min_font_size,
                          narrow |-> narrow, wide |-> wide,
                          lenient |-> lenient]
    /\ font_sizes = Idle
    /\ request = Idle
    /\ background_image = Idle
    /\ image = Idle
    /\ layout = Idle
    /\ pixel_work = FALSE
    /\ error = None
    /\ text = Idle
    /\ result = Idle
    /\ images = Idle
    /\ paths = Idle

\* _optimize_font_size is called with max_text_len = narrow and = wide.
FontOptimize ==
    /\ pc = "font_wanted"
    /\ font_sizes' =
          [narrow |-> OptimizeFontSize(font_args.font, font_args.text,
                          font_args.max_font_size, font_args.min_font_size,
                          font_args.narrow, font_args.lenient),
           wide |-> OptimizeFontSize(font_args.font, font_args.text,
                        font_args.max_font_size, font_args.min_font_size,
                        font_args.wide, font_args.lenient)]
    /\ pc' = "font_found"
    /\ UNCHANGED font_args
    /\ UNCHANGED OthersThanFont

FontNext == FontOptimize

SpecFont == FontInit /\ [][FontNext]_vars

----------------------------------------------------------------------------
(* Properties of _generate *)

\* A target width or height that was given (not None).
Given(v) == v # None

Returned == pc = "returned"

\* The captions have been laid out (and nothing raised).
LaidOut == pc \in {"drawn", "padded", "returned"}

\* C1: when a positive target width W and a positive target height H are both
\* requested, the image returned has size exactly W x H, whatever the size
\* and aspect ratio of the background.
C1_ExactRequestedSize ==
    (/\ Returned
     /\ Given(request.width) /\ request.width[1] > 0
     /\ Given(request.height) /\ request.height[1] > 0)
        => image.size = <<request.width[1], request.height[1]>>

\* C1's case: a returned image for a box whose aspect ratio is not the
\* background's, so that the resized foreground is smaller than the box.
C1_Witness ==
    /\ Returned
    /\ Given(request.width) /\ request.width[1] > 0
    /\ Given(request.height) /\ request.height[1] > 0
    /\ request.width[1] * request.background.size[2]
          # request.height[1] * request.background.size[1]
    /\ image.pasted # None
    /\ image.pasted[1][1] # image.size

\* A request that carries a width or a height <= 0.
InvalidDimensions ==
    \/ Given(request.width) /\ request.width[1] <= 0
    \/ Given(request.height) /\ request.height[1] <= 0

\* C8: a request whose target width or height is given and <= 0 is rejected
\* with an error before any pixel work; it never yields an image and is never
\* treated as if the dimension had not been supplied. (Any exception raised
\* before the first resize counts as the rejection.)
C8_InvalidDimensionsRejected ==
    (pc # "start" /\ InvalidDimensions) =>
        /\ ~pixel_work
        /\ pc \in {"opened", "raised"}

\* C9: the format of the returned image follows the background's: a JPEG
\* (opaque) background gives JPEG, an alpha-bearing one gives PNG, with or
\* without padding.
C9_FormatFollowsBackground ==
    Returned =>
        /\ background_image.format = "JPEG" => image.format = "JPEG"
        /\ background_image.mode = "RGBA" => image.format = "PNG"

\* The two layouts of a laid out request.
Layouts == {layout.top, layout.bottom}

\* A layout in which every size asked of the font is >= 1 whatever the text:
\* the image is at least 12 high and 21 wide.
PositiveSizes(l) == l.min_font_size >= 1 /\ l.max_text_len >= 1

\* C6: a text that fits max_text_len at min_font_size_single_line is returned
\* as a single line, unchanged, with a font size >= min_font_size_single_line,
\* for every image size the compositor derives the three parameters from
\* (stated here for the images on which every font size asked for is >= 1).
C6_SingleLineAtLeastMinimum ==
    LaidOut =>
        \A l \in Layouts :
            (/\ PositiveSizes(l)
             /\ FontWidth(l.font, l.caption, l.min_font_size)
                    <= l.max_text_len) =>
                /\ l.optimized[1].lines = 1
                /\ l.optimized[1].text = l.caption
                /\ l.optimized[1].font_size >= l.min_font_size

\* C10: the font size _optimize_font_size returns is always >= 1, for every
\* image size the compositor derives the parameters from (stated here for the
\* images wider than 20, on which no negative size is asked of the font).
C10_FontSizeAtLeastOne ==
    LaidOut =>
        \A l \in Layouts :
            l.max_text_len >= 1 => l.optimized[1].font_size >= 1

----------------------------------------------------------------------------
(* Properties of _split *)

\* The 0-based indices i, 1 <= i <= len(s) - 2, at which s has a space.
InteriorSpaces(s) == {i \in 1..(Len(s) - 2) : s[i + 1] = " "}

\* The distance of index i from the midpoint len(s) // 2.
FromMid(s, i) == Abs(i - (Len(s) \div 2))

\* C2: for every string with an interior space, leading or trailing spaces or
\* not, _split returns exactly two strings, both non-empty, and joining them
\* with one space gives the string back.
C2_SplitHalvesRebuildText ==
    (pc = "split_returned" /\ InteriorSpaces(text) # {}) =>
        /\ Len(result) = 2
        /\ Len(result[1]) > 0
        /\ Len(result[2]) > 0
        /\ result[1] \o <<" ">> \o result[2] = text

\* C2's case: a text split although its last character is a space as close to
\* the midpoint as its closest interior space.
C2_Witness ==
    /\ pc = "split_returned"
    /\ Len(text) >= 3
    /\ text[Len(text)] = " "
    /\ \E i \in InteriorSpaces(text) :
           FromMid(text, i) = FromMid(text, Len(text) - 1)
    /\ Len(result) = 2

\* C3: the cut is at an interior space closest to the midpoint len(s) // 2,
\* the lowest such index among ties; a string with no interior space comes
\* back unchanged as a one-element tuple; the doctests give their tuples.
C3_SplitAtClosestInteriorSpace ==
    pc = "split_returned" =>
        /\ InteriorSpaces(text) # {} =>
              \E j \in InteriorSpaces(text) :
                 /\ \A i \in InteriorSpaces(text) :
                        /\ FromMid(text, j) <= FromMid(text, i)
                        /\ FromMid(text, j) = FromMid(text, i) => j <= i
                 /\ result = <<SubSeq(text, 1, j),
                               SubSeq(text, j + 2, Len(text))>>
        /\ InteriorSpaces(text) = {} => result = <<text>>
        /\ text = DoctestHello =>
              result = <<SubSeq(DoctestHello, 1, 6), SubSeq(DoctestHello, 8, 13)>>
        /\ text = DoctestPhrase =>
              result = <<SubSeq(DoctestPhrase, 1, 16),
                         SubSeq(DoctestPhrase, 18, 35)>>
        /\ text = DoctestUnsplit => result = <<DoctestUnsplit>>

\* C3's case: two interior spaces equally close to the midpoint, and the cut
\* made at the lower one.
C3_Witness ==
    /\ pc = "split_returned"
    /\ \E i, j \in InteriorSpaces(text) :
          /\ i < j
          /\ FromMid(text, i) = FromMid(text, j)
          /\ \A k \in InteriorSpaces(text) : FromMid(text, i) <= FromMid(text, k)
          /\ Len(result) = 2
          /\ Len(result[1]) = i

----------------------------------------------------------------------------
(* Properties of Image.path *)

\* A style-affecting field that is absent or at its default: None, the empty
\* string, or (a size) 0.
AbsentString(v) == v \in {None, Some(<<>>)}

AbsentSize(v) == v \in {None, Some(0)}

AllAbsent(img) ==
    /\ AbsentString(img.style)
    /\ AbsentString(img.font)
    /\ AbsentString(img.watermark)
    /\ AbsentSize(img.width)
    /\ AbsentSize(img.height)

\* A field's value as the key is to tell it apart: an absent field is empty.
FieldText(v) == IF v = None THEN <<>> ELSE v[1]

SizeText(v) == IF AbsentSize(v) THEN <<>> ELSE IntStr(v[1])

\* The ordered index:value list of the five fields, written out.
IndexedFields(img) ==
    <<"0", ":">> \o FieldText(img.style)
        \o <<"1", ":">> \o FieldText(img.font)
        \o <<"2", ":">> \o FieldText(img.watermark)
        \o <<"3", ":">> \o SizeText(img.width)
        \o <<"4", ":">> \o SizeText(img.height)

HasHashMark(path) == \E k \in 1..Len(path) : path[k] = "#"

\* C4: with a root, the path is root/key/text.path + '.img', with no '#', exactly
\* when every style-affecting field is absent or default; otherwise it is the
\* base path, '#', the digest of the ordered field list, '.img'. Two objects
\* with identical inputs have identical paths.
C4_SuffixIffStyled ==
    (pc = "path_read" /\ images[1].root = Some(<<"r">>)) =>
        /\ \A n \in 1..2 :
              LET img == images[n]
                  path == paths[n][1]
                  base == <<"r", "/", "t", "/", "x">>
              IN  /\ paths[n] # None
                  /\ AllAbsent(img) <=> path = base \o ImgSuffix
                  /\ AllAbsent(img) <=> ~HasHashMark(path)
                  /\ ~AllAbsent(img) =>
                        path = base \o <<"#">>
                                 \o HexDigest(IndexedFields(img)) \o ImgSuffix
        /\ images[1] = images[2] => paths[1] = paths[2]

\* C4's case: one object with only a size set, whose path carries a digest,
\* and one with every field absent, whose path does not.
C4_Witness ==
    /\ pc = "path_read"
    /\ images[1].root = Some(<<"r">>)
    /\ AbsentString(images[1].style)
    /\ AbsentString(images[1].font)
    /\ AbsentString(images[1].watermark)
    /\ images[1].width = None
    /\ images[1].height = Some(1)
    /\ HasHashMark(paths[1][1])
    /\ AllAbsent(images[2])
    /\ ~HasHashMark(paths[2][1])

\* The five fields with every absent one written the same way.
StyleTuple(img) ==
    <<FieldText(img.style), FieldText(img.font), FieldText(img.watermark),
      SizeText(img.width), SizeText(img.height)>>

\* C5: two requests for one template and text whose style tuples differ in
\* at least one field get different variant keys.
C5_DistinctStylesDistinctKeys ==
    (/\ pc = "path_read"
     /\ images[1].root = Some(<<"r">>)
     /\ StyleTuple(images[1]) # StyleTuple(images[2]))
        => paths[1] # paths[2]

----------------------------------------------------------------------------
(* Properties of _optimize_font_size *)

\* Both calls returned (no font failed to load).
BothFound ==
    /\ pc = "font_found"
    /\ font_sizes.narrow # None
    /\ font_sizes.wide # None

\* C7 as stated: for any two widths W <= W', the font size found at W' is not
\* smaller than the one found at W.
C7_WiderNeverSmaller ==
    BothFound =>
        font_sizes.narrow[1].font_size <= font_sizes.wide[1].font_size

\* C7 as amended: for any two widths W <= W' at which the text is laid out on
\* the same number of lines, the font size found at W' is not smaller than the
\* one found at W.
C7_WiderNeverSmallerSameLines ==
    (BothFound /\ font_sizes.narrow[1].lines = font_sizes.wide[1].lines) =>
        font_sizes.narrow[1].font_size <= font_sizes.wide[1].font_size

\* C7's case: a text on two lines at both widths, with a strictly larger
\* font at the wider one.
C7_Witness ==
    /\ BothFound
    /\ font_args.narrow < font_args.wide
    /\ font_sizes.narrow[1].lines = 2
    /\ font_sizes.wide[1].lines = 2
    /\ font_sizes.narrow[1].font_size < font_sizes.wide[1].font_size

====
